---- MODULE Spec2Model ----
(***************************************************************************)
(* A model of the Kubernetes documentation scraper: Scraper.run and        *)
(* Scraper.scrape_section (the section crawl), Scraper.find_links (the      *)
(* sidebar link filter), Scraper.get_changelog (the changelog aggregator)   *)
(* and FileWriter.write (the output writer).                                *)
(*                                                                         *)
(* A URL is a record [scheme, netloc, path, fragment].  A path is the       *)
(* sequence of its segments as str.split('/') gives them, so "/docs/x/" is  *)
(* <<"", "docs", "x", "">> and the empty path is <<"">>.                    *)
(***************************************************************************)
EXTENDS Integers, Sequences, FiniteSets, TLC

\* ------------------------------------------------------------------ bounds

\* The largest number of anchors in a section's sidebar during a crawl.
MaxAnchors == 2

\* The largest number of anchors in a page handed to find_links alone.
MaxSoup == 3

\* The largest minor version the version pointer may report.
MaxMinor == 31

\* The largest number of items in a list handed to FileWriter.write.
MaxItems == 3

\* The largest number of FileWriter.write calls in a run.
MaxCalls == 2

\* ------------------------------------------------------- sequence helpers

Range(s) == {s[i] : i \in 1..Len(s)}

Last(s) == s[Len(s)]

Front(s) == SubSeq(s, 1, Len(s) - 1)

\* The sequences over S of length at most n.
SeqsUpTo(S, n) == UNION {[1..k -> S] : k \in 0..n}

Min(a, b) == IF a < b THEN a ELSE b

Max(a, b) == IF a > b THEN a ELSE b

\* Python's s[:n] of a list: a negative n counts from the end.
SliceTo(s, n) ==
    IF n >= 0 THEN SubSeq(s, 1, Min(n, Len(s)))
    ELSE SubSeq(s, 1, Max(Len(s) + n, 0))

\* --------------------------------------------------------------- urllib

Url(scheme, netloc, path, fragment) ==
    [scheme |-> scheme, netloc |-> netloc, path |-> path, fragment |-> fragment]

\* Pairs <<a, b>> of path segments where the string a is a proper, non-empty
\* prefix of the string b.
SegmentPrefixes == {<<"reference", "reference-old">>}

\* str.startswith on single segments.
SegStartsWith(b, a) == a = "" \/ a = b \/ <<a, b>> \in SegmentPrefixes

\* str.startswith on paths: '/'.join(path).startswith('/'.join(prefix)).
StartsWith(path, prefix) ==
    /\ Len(path) >= Len(prefix)
    /\ \A i \in 1..(Len(prefix) - 1) : path[i] = prefix[i]
    /\ SegStartsWith(path[Len(prefix)], prefix[Len(prefix)])

\* path.startswith('/')
HasLeadingSlash(path) == Len(path) >= 2 /\ path[1] = ""

\* segments[1:-1] = filter(None, segments[1:-1])
RECURSIVE FilterInterior(_, _)
FilterInterior(segs, i) ==
    IF i > Len(segs) THEN <<>>
    ELSE IF i > 1 /\ i < Len(segs) /\ segs[i] = "" THEN FilterInterior(segs, i + 1)
    ELSE <<segs[i]>> \o FilterInterior(segs, i + 1)

\* urljoin's loop over the segments: '..' pops, '.' is dropped.
RECURSIVE RemoveDots(_, _, _)
RemoveDots(segs, i, resolved) ==
    IF i > Len(segs) THEN resolved
    ELSE IF segs[i] = ".." THEN
        RemoveDots(segs, i + 1, IF resolved = <<>> THEN resolved ELSE Front(resolved))
    ELSE IF segs[i] = "." THEN RemoveDots(segs, i + 1, resolved)
    ELSE RemoveDots(segs, i + 1, Append(resolved, segs[i]))

\* urlunparse followed by urlparse: with a netloc, a path that lacks its
\* leading slash gets one.
Unparse(u) ==
    IF u.netloc # "" /\ u.path # <<"">> /\ ~HasLeadingSlash(u.path)
    THEN [u EXCEPT !.path = <<"">> \o u.path]
    ELSE u

\* urllib.parse.urljoin(base, url), for a non-empty url.
urljoin(base, url) ==
    IF url.scheme # "" /\ url.scheme # base.scheme THEN url
    ELSE IF url.netloc # "" THEN
        Unparse(Url(base.scheme, url.netloc, url.path, url.fragment))
    ELSE IF url.path = <<"">> THEN
        Unparse(Url(base.scheme, base.netloc, base.path, url.fragment))
    ELSE
        LET base_parts == IF Last(base.path) # "" THEN Front(base.path) ELSE base.path
            segments   == IF url.path[1] = "" /\ Len(url.path) >= 2
                          THEN url.path
                          ELSE FilterInterior(base_parts \o url.path, 1)
            resolved   == RemoveDots(segments, 1, <<>>)
            resolved2  == IF Last(segments) \in {".", ".."}
                          THEN Append(resolved, "") ELSE resolved
            path       == IF resolved2 = <<>> \/ resolved2 = <<"">>
                          THEN <<"", "">> ELSE resolved2
        IN  Unparse(Url(base.scheme, base.netloc, path, url.fragment))

\* ------------------------------------------------------------ find_links

\* An anchor without an href attribute: a.get('href') is None.
NoHref == [scheme |-> "none", netloc |-> "", path |-> <<>>, fragment |-> ""]

\* href="" : the empty string.
EmptyHref == Url("", "", <<"">>, "")

\* `if href:` is false of None and of the empty string.
Truthy(href) == href # NoHref /\ href # EmptyHref

\* section_path if section_path.startswith('/') else f'/{section_path}'
NormalizeSectionPath(section_path) ==
    IF HasLeadingSlash(section_path) THEN section_path ELSE <<"">> \o section_path

\* A test that forgets the host.
KeepLink_PathOnly(parsed_url, parsed_base, section_path) ==
    StartsWith(parsed_url.path, section_path)

\* The test of one resolved URL: same netloc, path under the section's path.
KeepLink(parsed_url, parsed_base, section_path) ==
    /\ parsed_url.netloc = parsed_base.netloc
    /\ StartsWith(parsed_url.path, section_path)

\* Scraper.find_links: soup is the sequence of the hrefs of the page's
\* a.td-sidebar-link anchors, in document order.
RECURSIVE FindLinksFrom(_, _, _, _)
FindLinksFrom(soup, i, base_url, section_path) ==
    IF i > Len(soup) THEN <<>>
    ELSE LET href == soup[i]
             absolute_url == urljoin(base_url, href)
             rest == FindLinksFrom(soup, i + 1, base_url, section_path)
         IN  IF Truthy(href) /\ KeepLink(absolute_url, base_url, section_path)
             THEN <<absolute_url>> \o rest
             ELSE rest

find_links(soup, base_url, section_path) ==
    FindLinksFrom(soup, 1, base_url, NormalizeSectionPath(section_path))

\* The hrefs of the pages handed to find_links alone: relative, root-relative,
\* protocol-relative and absolute ones, with dot segments, a fragment, another
\* scheme, another host, a sibling directory whose name extends the section's,
\* the empty string and no href at all.
FinderHrefs ==
    { Url("", "", <<"glossary", "">>, ""),
      Url("", "", <<"", "docs", "reference", "kubectl", "kubectl-cmds", "">>, ""),
      Url("", "", <<"..", "tasks", "run", "">>, ""),
      Url("", "", <<"..">>, ""),
      Url("", "", <<"", "docs", "reference-old", "glossary", "">>, ""),
      Url("", "", <<"">>, "top"),
      Url("", "kubernetes.io", <<"", "docs", "reference", "glossary", "">>, ""),
      Url("", "github.com", <<"", "docs", "reference", "glossary", "">>, ""),
      Url("https", "github.com", <<"", "docs", "reference", "">>, ""),
      Url("http", "kubernetes.io", <<"", "docs", "reference", "glossary", "">>, ""),
      Url("mailto", "", <<"docs@kubernetes.io">>, ""),
      EmptyHref,
      NoHref }

\* The arguments of a call of find_links.
FinderInputs ==
    [ soup : SeqsUpTo(FinderHrefs, MaxSoup),
      base_url : { Url("https", "kubernetes.io", <<"", "docs", "reference", "">>, ""),
                   Url("https", "kubernetes.io", <<"", "docs", "tasks", "">>, "") },
      section_path : { <<"", "docs", "reference", "">>,
                       <<"docs", "reference", "">>,
                       <<"", "docs", "reference">>,
                       <<"", "docs", "tasks", "">> } ]

\* ------------------------------------------------------------ get_changelog

\* The oldest minor version whose changelog is fetched.
ChangelogFloor == 9

\* The body of https://dl.k8s.io/release/stable.txt, "v<major>.<minor>.<patch>".
StableText(major, minor, patch) == <<"v", major, minor, patch>>

\* The bodies the version pointer may have.
StableTexts ==
    {StableText(1, minor, 0) : minor \in (ChangelogFloor - 2)..MaxMinor}

\* response.text.strip()[1:].split('.')
Parts(text) == Tail(text)

\* A piece of the changelog markdown: the heading, the body of a version's
\* changelog, the text of an error response, or the separator line.
Chunk(kind, minor) == [kind |-> kind, minor |-> minor]

\* A range that stops one version early.
VersionsToProcess_FloorExcluded(minor) ==
    [i \in 1..Max(minor - ChangelogFloor, 0) |-> minor - i + 1]

\* range(minor, 9 - 1, -1)
VersionsToProcess(minor) ==
    [i \in 1..Max(minor - (ChangelogFloor - 1), 0) |-> minor - i + 1]

\* --------------------------------------------------------- FileWriter.write

\* The header argument: None, or a string.
HeaderNone == [none |-> TRUE, text |-> ""]

HeaderText(text) == [none |-> FALSE, text |-> text]

\* `if header:` is false of None and of the empty string.
HeaderGiven(header) == ~header.none /\ header.text # ""

\* The content argument: a str, or a list of str.
StrContent(text) == [is_str |-> TRUE, items |-> <<text>>]

ListContent(items) == [is_str |-> FALSE, items |-> items]

\* The list "A", "B", "A", ... of n documents.
Documents(n) == [i \in 1..n |-> IF i % 2 = 1 THEN "A" ELSE "B"]

\* f"{filename}{suffix}" under output_dir.
FilePath(filename, suffix) == <<filename, suffix>>

\* The paths FileWriter.write is called for.
WriterPaths == {FilePath("reference", ".md"), FilePath("reference", ".pdf")}

\* The arguments of a call of FileWriter.write.
WriterInputs ==
    [ path : WriterPaths,
      content : {StrContent("A"), StrContent("")}
                  \cup {ListContent(Documents(n)) : n \in 0..MaxItems},
      mode : {"w", "a"},
      header : {HeaderNone, HeaderText(""), HeaderText("# Heading")},
      multiple_documents : BOOLEAN,
      overwrite : BOOLEAN ]

\* f.write(text): writing the empty string adds nothing to the file.
WriteChunk(data, text) == IF text = "" THEN data ELSE Append(data, text)

\* FileWriter.print_document_separator: the three writes.
PrintDocumentSeparator(data) ==
    WriteChunk(WriteChunk(WriteChunk(data, "\n\n"),
        "+======================= NEW DOCUMENT =======================+\n"), "\n\n")

\* not overwrite and os.path.exists(file_path)
ShouldSkip(overwrite, exists) == ~overwrite /\ exists

\* A separator before every item, the first included.
NeedsSeparator_Always(multiple_documents, i) == multiple_documents

\* multiple_documents and i > 0, with i the item's index from 0.
NeedsSeparator(multiple_documents, i) == multiple_documents /\ i > 0

\* for i, item in enumerate(content): the separator when due, then the item.
RECURSIVE WriteItems(_, _, _, _)
WriteItems(data, items, i, multiple_documents) ==
    IF i >= Len(items) THEN data
    ELSE LET separated == IF NeedsSeparator(multiple_documents, i)
                          THEN PrintDocumentSeparator(data) ELSE data
         IN  WriteItems(WriteChunk(separated, items[i + 1]), items, i + 1,
                        multiple_documents)

\* What the body of the `with open(...)` block writes to the file opened.
WriteBody(data, args) ==
    LET headed == IF HeaderGiven(args.header)
                  THEN WriteChunk(data, args.header.text) ELSE data
    IN  IF args.content.is_str
        THEN WriteChunk(headed, args.content.items[1])
        ELSE WriteItems(headed, args.content.items, 0, args.multiple_documents)

\* open(file_path, mode): "w" empties the file, "a" keeps what it holds.
OpenFile(file, mode) == IF mode = "w" THEN <<>> ELSE file.content

\* ------------------------------------------------------- the section crawl

\* config.kubernetes_docs_base_url: "https://kubernetes.io/docs"
KubernetesDocsBaseUrl == Url("https", "kubernetes.io", <<"", "docs">>, "")

\* The section names a run may be configured with.
SectionNames == {"reference", "Tasks"}

\* str.lower on a section name.
Lower(section) == IF section = "Tasks" THEN "tasks" ELSE section

\* f"{config.kubernetes_docs_base_url}/{section.lower()}/"
SectionUrl(section) ==
    [KubernetesDocsBaseUrl EXCEPT
        !.path = KubernetesDocsBaseUrl.path \o <<Lower(section), "">>]

\* The --skip-links default.
DefaultSkipLinks ==
    { Url("https", "kubernetes.io", <<"", "docs", "reference", "glossary", "">>, ""),
      Url("https", "kubernetes.io",
          <<"", "docs", "reference", "kubectl", "kubectl-cmds", "">>, "") }

\* The --max-links default: the sentinel for "no limit".
Unbounded == -1

\* The hrefs a section's index page may carry in its sidebar.
SidebarHrefs ==
    { Url("", "", <<"glossary", "">>, ""),
      Url("", "", <<"", "docs", "reference", "kubectl", "kubectl-cmds", "">>, ""),
      Url("", "", <<"..", "tasks", "run", "">>, ""),
      Url("https", "github.com", <<"", "docs", "reference", "">>, ""),
      NoHref }

\* The index pages a fetch may return, as their sidebars.
Soups == SeqsUpTo(SidebarHrefs, MaxAnchors)

\* The configurations of a run: an ordered set of sections, a link limit and
\* a skip-list.
Configurations ==
    [ sections : {q \in SeqsUpTo(SectionNames, Cardinality(SectionNames)) :
                    Len(q) >= 1 /\ \A i, j \in 1..Len(q) : q[i] = q[j] => i = j},
      max_links_to_process : (Unbounded - 1)..MaxAnchors,
      skip_links : {{}, DefaultSkipLinks} ]

\* No file of that name in the output directory.
Absent == [exists |-> FALSE, content |-> <<>>]

\* A file of the output directory with that content.
File(content) == [exists |-> TRUE, content |-> content]

\* f"# Kubernetes Documentation: {section_name}\n\n"
SectionHeader(name) == [header |-> name]

\* Scraper.extract_content on a page that has the content container: the
\* "Page Source:" line, the converted body and the separator.
PageMarkdown(url) == [source |-> url]

\* A scrape_section that creates the file only when it has pages to write.
WriteHeading_Skipped(fs, name) == fs

\* open(section_output_path, "w") and the write of the heading, at the start
\* of scrape_section.
WriteHeading(fs, name) == [fs EXCEPT ![name] = File(<<SectionHeader(name)>>)]

\* open(section_output_path, "a") and the writes of the page contents.
AppendPages(fs, name, contents) ==
    [fs EXCEPT ![name] = File(@.content \o contents)]

\* A slice that is one too long.
Truncate_OneTooMany(found, max_links) ==
    SliceTo(found, IF max_links # Unbounded THEN max_links + 1 ELSE Len(found))

\* links[:config.max_links_to_process if config.max_links_to_process != -1 else len(links)]
Truncate(found, max_links) ==
    SliceTo(found, IF max_links # Unbounded THEN max_links ELSE Len(found))

\* A count of the links that did not fail.
TotalLinks_SuccessesOnly(to_process, failed) == Len(to_process) - Len(failed)

\* total_links, which scrape_section returns as the number of links processed.
TotalLinks(to_process, failed) == Len(to_process)

\* `break` in the place of `continue`: the loop ends at the first failure.
AfterFailedLink_Break(idx, to_process) == Len(to_process) + 1

\* `continue` after a failed link: the loop goes on with the next link.
AfterFailedLink(idx, to_process) == idx + 1

VARIABLES
    config,            \* the Configuration of the run
    pc,                \* where the run is: "run", "index", "links", "done"
    section_idx,       \* Scraper.run: position in config.sections
    results,           \* Scraper.run: the ScrapingResults
    files,             \* the output directory: section name -> file content
    links,             \* scrape_section: what find_links returned
    links_to_process,  \* scrape_section: links after the truncation
    link_idx,          \* scrape_section: position in links_to_process
    page_contents,     \* scrape_section: markdown of the pages extracted
    failed_links,      \* scrape_section: the links that failed
    fetched,           \* history: the calls of download_page and how each ended
    last_outcome       \* history: how the last step of scrape_section ended

VARIABLES
    fl_pc,             \* find_links alone: "idle", "call", "returned"
    fl_args,           \* find_links alone: soup, base_url, section_path
    fl_result          \* find_links alone: the list returned

finder_vars == <<fl_pc, fl_args, fl_result>>

VARIABLES
    cl_pc,             \* get_changelog: "idle", "start", "loop", "written",
                       \*   "failed" (returned without writing), "raised"
    cl_latest,         \* get_changelog: major and minor of the latest version
    cl_versions,       \* get_changelog: versions_to_process
    cl_idx,            \* get_changelog: position in versions_to_process
    cl_markdown,       \* get_changelog: markdown
    cl_file,           \* output/changelog.md
    cl_fetched         \* history: the changelog requests and how each ended

changelog_vars == <<cl_pc, cl_latest, cl_versions, cl_idx, cl_markdown, cl_file,
                    cl_fetched>>

VARIABLES
    fw_fs,             \* FileWriter: the output directory, path -> file
    fw_calls,          \* history: the number of FileWriter.write calls made
    fw_call,           \* history: the arguments of the last call and whether
                       \*   it opened the file
    fw_before          \* history: the output directory before the last call

writer_vars == <<fw_fs, fw_calls, fw_call, fw_before>>

not_crawl_vars == <<finder_vars, changelog_vars, writer_vars>>

crawl_vars == <<config, pc, section_idx, results, files, links, links_to_process,
                link_idx, page_contents, failed_links, fetched, last_outcome>>

section_name == config.sections[section_idx]

section_url == SectionUrl(section_name)

link == links_to_process[link_idx]

\* An entry of the history of download_page calls.
Fetch(url, kind) == [section |-> section_idx, url |-> url, kind |-> kind]

FinderIdle ==
    /\ fl_pc = "idle"
    /\ fl_args = [soup |-> <<>>, base_url |-> KubernetesDocsBaseUrl,
                  section_path |-> <<"">>]
    /\ fl_result = <<>>

ChangelogIdle ==
    /\ cl_pc = "idle"
    /\ cl_latest = [major |-> 0, minor |-> 0]
    /\ cl_versions = <<>>
    /\ cl_idx = 1
    /\ cl_markdown = <<>>
    /\ cl_file = Absent
    /\ cl_fetched = <<>>

\* No call of FileWriter.write yet.
NoCall ==
    [path |-> FilePath("", ""), content |-> ListContent(<<>>), mode |-> "w",
     header |-> HeaderNone, multiple_documents |-> FALSE, overwrite |-> FALSE,
     opened |-> FALSE]

WriterIdle ==
    /\ fw_fs = [q \in WriterPaths |-> Absent]
    /\ fw_calls = 0
    /\ fw_call = NoCall
    /\ fw_before = fw_fs

CrawlInit ==
    /\ config \in Configurations
    /\ pc = "run"
    /\ section_idx = 1
    /\ results = [failed_links |-> <<>>, links_processed |-> 0]
    /\ files = [s \in SectionNames |-> Absent]
    /\ links = <<>>
    /\ links_to_process = <<>>
    /\ link_idx = 1
    /\ page_contents = <<>>
    /\ failed_links = <<>>
    /\ fetched = <<>>
    /\ last_outcome = "none"

\* Scraper.run enters scrape_section for the next section: the output file is
\* opened with "w" and the heading is written.
StartSection ==
    /\ pc = "run"
    /\ section_idx <= Len(config.sections)
    /\ files' = WriteHeading(files, section_name)
    /\ pc' = "index"
    /\ UNCHANGED <<config, section_idx, results, links, links_to_process, link_idx,
                   page_contents, failed_links, fetched, last_outcome>>
    /\ UNCHANGED not_crawl_vars

\* An index failure that ends the whole run.
IndexFetchFails_Aborts ==
    /\ pc = "index"
    /\ fetched' = Append(fetched, Fetch(section_url, "index_failed"))
    /\ pc' = "done"
    /\ last_outcome' = "index_failed"
    /\ UNCHANGED <<config, section_idx, results, files, links, links_to_process,
                   link_idx, page_contents, failed_links>>
    /\ UNCHANGED not_crawl_vars

\* download_page(section_url) returns None: scrape_section returns ([], 0) and
\* Scraper.run goes on to the next section.
IndexFetchFails ==
    /\ pc = "index"
    /\ fetched' = Append(fetched, Fetch(section_url, "index_failed"))
    /\ results' = [results EXCEPT !.links_processed = @ + 0]
    /\ section_idx' = section_idx + 1
    /\ pc' = "run"
    /\ last_outcome' = "index_failed"
    /\ UNCHANGED <<config, files, links, links_to_process, link_idx,
                   page_contents, failed_links>>
    /\ UNCHANGED not_crawl_vars

\* download_page(section_url) returns the index page: the links are found and
\* truncated.
IndexFetched ==
    /\ pc = "index"
    /\ \E soup \in Soups :
          LET found == find_links(soup, section_url, section_url.path)
          IN  /\ links' = found
              /\ links_to_process' = Truncate(found, config.max_links_to_process)
    /\ fetched' = Append(fetched, Fetch(section_url, "index_ok"))
    /\ link_idx' = 1
    /\ page_contents' = <<>>
    /\ failed_links' = <<>>
    /\ pc' = "links"
    /\ last_outcome' = "none"
    /\ UNCHANGED <<config, section_idx, results, files>>
    /\ UNCHANGED not_crawl_vars

\* One iteration of the loop: download_page(link) returns None.
LinkFetchFails ==
    /\ pc = "links"
    /\ link_idx <= Len(links_to_process)
    /\ fetched' = Append(fetched, Fetch(link, "link_failed"))
    /\ failed_links' = Append(failed_links, link)
    /\ link_idx' = AfterFailedLink(link_idx, links_to_process)
    /\ last_outcome' = "fetch_failed"
    /\ UNCHANGED <<config, pc, section_idx, results, files, links,
                   links_to_process, page_contents>>
    /\ UNCHANGED not_crawl_vars

\* One iteration of the loop: the page has no .td-content element, so
\* extract_content returns None.
LinkHasNoContent ==
    /\ pc = "links"
    /\ link_idx <= Len(links_to_process)
    /\ fetched' = Append(fetched, Fetch(link, "link_failed"))
    /\ failed_links' = Append(failed_links, link)
    /\ link_idx' = AfterFailedLink(link_idx, links_to_process)
    /\ last_outcome' = "no_content"
    /\ UNCHANGED <<config, pc, section_idx, results, files, links,
                   links_to_process, page_contents>>
    /\ UNCHANGED not_crawl_vars

\* One iteration of the loop: the page is fetched and extracted.
LinkExtracted ==
    /\ pc = "links"
    /\ link_idx <= Len(links_to_process)
    /\ fetched' = Append(fetched, Fetch(link, "link_ok"))
    /\ page_contents' = Append(page_contents, PageMarkdown(link))
    /\ link_idx' = link_idx + 1
    /\ last_outcome' = "ok"
    /\ UNCHANGED <<config, pc, section_idx, results, files, links,
                   links_to_process, failed_links>>
    /\ UNCHANGED not_crawl_vars

\* The loop is over: the pages are appended to the section's file,
\* scrape_section returns and Scraper.run adds the section to the results.
FinishSection ==
    /\ pc = "links"
    /\ link_idx > Len(links_to_process)
    /\ files' = AppendPages(files, section_name, page_contents)
    /\ results' =
          [failed_links |-> results.failed_links \o failed_links,
           links_processed |-> results.links_processed
                                 + TotalLinks(links_to_process, failed_links)]
    /\ section_idx' = section_idx + 1
    /\ pc' = "run"
    /\ links' = <<>>
    /\ links_to_process' = <<>>
    /\ link_idx' = 1
    /\ page_contents' = <<>>
    /\ failed_links' = <<>>
    /\ last_outcome' = "none"
    /\ UNCHANGED <<config, fetched>>
    /\ UNCHANGED not_crawl_vars

\* Scraper.run has gone through every section and returns the results.
FinishRun ==
    /\ pc = "run"
    /\ section_idx > Len(config.sections)
    /\ pc' = "done"
    /\ UNCHANGED <<config, section_idx, results, files, links, links_to_process,
                   link_idx, page_contents, failed_links, fetched, last_outcome>>
    /\ UNCHANGED not_crawl_vars

vars == <<crawl_vars, finder_vars, changelog_vars, writer_vars>>

Init == CrawlInit /\ FinderIdle /\ ChangelogIdle /\ WriterIdle

Next ==
    \/ StartSection
    \/ IndexFetchFails
    \/ IndexFetched
    \/ LinkFetchFails
    \/ LinkHasNoContent
    \/ LinkExtracted
    \/ FinishSection
    \/ FinishRun

Spec == Init /\ [][Next]_vars

\* ------------------------------------------------ properties of the crawl

IsLinkFetch(f) == f.kind \in {"link_ok", "link_failed"}

\* The content pages fetched for the k-th configured section, in order.
LinkFetches(k) == SelectSeq(fetched, LAMBDA f : f.section = k /\ IsLinkFetch(f))

UrlsOf(log) == [i \in 1..Len(log) |-> log[i].url]

PagesOf(log) == [i \in 1..Len(log) |-> PageMarkdown(log[i].url)]

Failed(log) == SelectSeq(log, LAMBDA f : f.kind = "link_failed")

Extracted(log) == SelectSeq(log, LAMBDA f : f.kind = "link_ok")

\* C1: a link of the skip-list is never fetched, its content is in no
\* section's output and it is in no failed-links list.
C1_SkipListRespected ==
    /\ \A k \in 1..Len(fetched) : fetched[k].url \notin config.skip_links
    /\ \A s \in SectionNames : \A i \in 1..Len(files[s].content) :
          files[s].content[i] \notin {PageMarkdown(l) : l \in config.skip_links}
    /\ \A i \in 1..Len(failed_links) : failed_links[i] \notin config.skip_links
    /\ \A i \in 1..Len(results.failed_links) :
          results.failed_links[i] \notin config.skip_links

\* C2: with max_links_to_process = N >= 0 and M >= N links found, the links
\* to process are the first N found, and with the sentinel -1 all M; the
\* content pages fetched for the section are those links in discovery order,
\* each once, so that when the loop ends exactly they were fetched.
C2_Truncation ==
    pc = "links" =>
        LET N == config.max_links_to_process
            M == Len(links)
        IN  /\ (N >= 0 /\ M >= N) => links_to_process = SubSeq(links, 1, N)
            /\ N = Unbounded => links_to_process = links
            /\ link_idx <= Len(links_to_process) + 1
            /\ UrlsOf(LinkFetches(section_idx))
                 = SubSeq(links_to_process, 1, link_idx - 1)

\* The loop has ended with a limit of 1 and two different links found: the
\* first was fetched and the second was not.
C2_Witness ==
    /\ pc = "links"
    /\ config.max_links_to_process = 1
    /\ Len(links) = 2
    /\ links[1] # links[2]
    /\ link_idx = 2
    /\ UrlsOf(LinkFetches(section_idx)) = <<links[1]>>

\* C4: the output directory holds a file for exactly the sections whose
\* scrape has begun, each starting with its section's heading; so after the
\* run there is exactly one file per configured section, whatever failed.
C4_OneFilePerSection ==
    /\ \A s \in SectionNames :
          files[s].exists <=>
             \E i \in 1..Len(config.sections) :
                /\ config.sections[i] = s
                /\ i < section_idx \/ (i = section_idx /\ pc \in {"index", "links"})
    /\ \A s \in SectionNames :
          files[s].exists => files[s].content[1] = SectionHeader(s)
    /\ pc = "done" =>
          \A s \in SectionNames : files[s].exists <=> s \in Range(config.sections)

\* The run is over; one section's index page could not be fetched and every
\* link of another section failed.
C4_Witness ==
    /\ pc = "done"
    /\ Len(config.sections) = 2
    /\ \E k \in 1..Len(fetched) : fetched[k].kind = "index_failed"
    /\ \E k \in 1..2 : LinkFetches(k) # <<>> /\ Extracted(LinkFetches(k)) = <<>>
    /\ \A s \in SectionNames : files[s].exists

\* C5: a link whose fetch or extraction fails is appended to the section's
\* failed links, adds nothing to the section's pages or file, is fetched once
\* and the loop goes on: the links fetched are always the links before the
\* loop's position, each once.
C5_FailedLinkHandling ==
    /\ pc = "links" =>
          /\ UrlsOf(LinkFetches(section_idx))
               = SubSeq(links_to_process, 1, link_idx - 1)
          /\ failed_links = UrlsOf(Failed(LinkFetches(section_idx)))
          /\ page_contents = PagesOf(Extracted(LinkFetches(section_idx)))
          /\ files[section_name].content = <<SectionHeader(section_name)>>
          /\ last_outcome \in {"fetch_failed", "no_content"} =>
                /\ link_idx >= 2
                /\ Last(failed_links) = links_to_process[link_idx - 1]
                /\ Last(LinkFetches(section_idx)).kind = "link_failed"
    /\ \A k \in 1..Len(config.sections) :
          (k < section_idx /\ files[config.sections[k]].exists) =>
             files[config.sections[k]].content
               = <<SectionHeader(config.sections[k])>> \o PagesOf(Extracted(LinkFetches(k)))

\* The first link of a section failed and the loop went on to fetch and
\* extract the second.
C5_Witness ==
    /\ pc = "links"
    /\ link_idx = 3
    /\ failed_links = <<links_to_process[1]>>
    /\ page_contents = <<PageMarkdown(links_to_process[2])>>
    /\ last_outcome = "ok"

\* C6 as stated: links_processed counts the links fetched and extracted, a
\* failed link is not counted, and failed_links is the sequence of the links
\* that failed.
C6_CountsSuccessesOnly ==
    pc = "done" =>
        /\ results.links_processed = Len(Extracted(fetched))
        /\ results.failed_links = UrlsOf(Failed(fetched))

\* C6 as amended: links_processed counts every link the sections took up,
\* the failed ones included; failed_links is the sequence of the links that
\* failed, in section order and then discovery order.
C6_ResultAccounting ==
    /\ \A i, j \in 1..Len(fetched) : i <= j => fetched[i].section <= fetched[j].section
    /\ pc = "links" =>
          /\ UrlsOf(LinkFetches(section_idx)) = SubSeq(links_to_process, 1, link_idx - 1)
          /\ results.failed_links \o failed_links = UrlsOf(Failed(fetched))
    /\ pc = "done" =>
          /\ results.links_processed = Len(SelectSeq(fetched, IsLinkFetch))
          /\ results.links_processed
               = Len(Extracted(fetched)) + Len(results.failed_links)
          /\ results.failed_links = UrlsOf(Failed(fetched))

\* The run is over with links failed in both of two sections and a link
\* extracted.
C6_Witness ==
    /\ pc = "done"
    /\ Len(config.sections) = 2
    /\ Failed(LinkFetches(1)) # <<>>
    /\ Failed(LinkFetches(2)) # <<>>
    /\ Extracted(fetched) # <<>>
    /\ results.links_processed > Len(Extracted(fetched))

\* C7: a section whose index page cannot be fetched adds no link to the
\* results, none of its content pages is fetched, and the run fetches the
\* index page of every configured section, in configured order.
C7_IndexFailureSkipsSection ==
    /\ \A k \in 1..Len(fetched) :
          fetched[k].kind = "index_failed" => LinkFetches(fetched[k].section) = <<>>
    /\ last_outcome = "index_failed" =>
          /\ pc \in {"run", "index", "done"}
          /\ Last(fetched).kind = "index_failed"
          /\ results.links_processed = Len(SelectSeq(fetched, IsLinkFetch))
          /\ results.failed_links = UrlsOf(Failed(fetched))
    /\ pc = "done" =>
          UrlsOf(SelectSeq(fetched, LAMBDA f : ~IsLinkFetch(f)))
            = [i \in 1..Len(config.sections) |-> SectionUrl(config.sections[i])]

\* The first section's index page could not be fetched and a page of the
\* second section was fetched and extracted.
C7_Witness ==
    /\ pc = "done"
    /\ Len(config.sections) = 2
    /\ fetched[1].kind = "index_failed"
    /\ Extracted(LinkFetches(2)) # <<>>
    /\ files[config.sections[1]].content = <<SectionHeader(config.sections[1])>>

\* ---------------------------------------------------- find_links by itself

\* No crawl is running.
CrawlIdle ==
    /\ config = [sections |-> <<>>, max_links_to_process |-> Unbounded,
                 skip_links |-> {}]
    /\ pc = "idle"
    /\ section_idx = 1
    /\ results = [failed_links |-> <<>>, links_processed |-> 0]
    /\ files = [s \in SectionNames |-> Absent]
    /\ links = <<>>
    /\ links_to_process = <<>>
    /\ link_idx = 1
    /\ page_contents = <<>>
    /\ failed_links = <<>>
    /\ fetched = <<>>
    /\ last_outcome = "none"

FinderInit ==
    /\ fl_pc = "call"
    /\ fl_args \in FinderInputs
    /\ fl_result = <<>>

\* The call of Scraper.find_links(soup, base_url, section_path).
FindLinksCall ==
    /\ fl_pc = "call"
    /\ fl_result' = find_links(fl_args.soup, fl_args.base_url, fl_args.section_path)
    /\ fl_pc' = "returned"
    /\ UNCHANGED <<fl_args, crawl_vars, changelog_vars, writer_vars>>

LinksInit == FinderInit /\ CrawlIdle /\ ChangelogIdle /\ WriterIdle

LinksNext == FindLinksCall

SpecLinks == LinksInit /\ [][LinksNext]_vars

\* The hrefs of the page that are not None and not empty, resolved against
\* the base URL, in document order.
ResolvedHrefs ==
    LET given == SelectSeq(fl_args.soup, Truthy)
    IN  [i \in 1..Len(given) |-> urljoin(fl_args.base_url, given[i])]

\* The section's path prefix, with its leading slash.
SectionPrefix ==
    IF fl_args.section_path[1] = "" /\ Len(fl_args.section_path) > 1
    THEN fl_args.section_path
    ELSE <<"">> \o fl_args.section_path

UnderSection(u) ==
    /\ u.netloc = fl_args.base_url.netloc
    /\ StartsWith(u.path, SectionPrefix)

\* C3: every URL find_links returns has the base URL's host and a path that
\* starts with the section's path prefix; what it returns is the resolved
\* hrefs that pass this test, in document order, duplicates kept, anchors
\* without an href left out.
C3_LinkFiltering ==
    fl_pc = "returned" =>
        /\ \A i \in 1..Len(fl_result) :
              /\ fl_result[i].netloc = fl_args.base_url.netloc
              /\ StartsWith(fl_result[i].path, SectionPrefix)
        /\ fl_result = SelectSeq(ResolvedHrefs, UnderSection)

\* A sidebar of three anchors, two under the section and different, one on
\* another host: exactly the two are returned, in their order.
C3_Witness ==
    /\ fl_pc = "returned"
    /\ Len(fl_args.soup) = 3
    /\ fl_args.soup[2].netloc = "github.com"
    /\ Len(fl_result) = 2
    /\ fl_result[1] = urljoin(fl_args.base_url, fl_args.soup[1])
    /\ fl_result[2] = urljoin(fl_args.base_url, fl_args.soup[3])
    /\ fl_result[1] # fl_result[2]

\* ------------------------------------------------- get_changelog by itself

ChangelogStart ==
    /\ cl_pc = "start"
    /\ cl_latest = [major |-> 0, minor |-> 0]
    /\ cl_versions = <<>>
    /\ cl_idx = 1
    /\ cl_markdown = <<>>
    /\ cl_file = Absent
    /\ cl_fetched = <<>>

not_changelog_vars == <<crawl_vars, finder_vars, writer_vars>>

\* The version pointer is fetched and parsed; the markdown starts with the
\* heading and the versions to process are laid out.
StableFetched ==
    /\ cl_pc = "start"
    /\ \E text \in StableTexts :
          LET parts == Parts(text)
              major == parts[1]
              minor == parts[2]
          IN  /\ cl_latest' = [major |-> major, minor |-> minor]
              /\ cl_markdown' = <<Chunk("heading", minor)>>
              /\ cl_versions' = VersionsToProcess(minor)
    /\ cl_idx' = 1
    /\ cl_pc' = "loop"
    /\ UNCHANGED <<cl_file, cl_fetched>>
    /\ UNCHANGED not_changelog_vars

\* The request for the version pointer fails, or raise_for_status raises:
\* nothing catches it and get_changelog raises.
StableFetchRaises ==
    /\ cl_pc = "start"
    /\ cl_pc' = "raised"
    /\ UNCHANGED <<cl_latest, cl_versions, cl_idx, cl_markdown, cl_file, cl_fetched>>
    /\ UNCHANGED not_changelog_vars

\* One iteration of the loop: the version's changelog is fetched and added.
ChangelogFetched ==
    /\ cl_pc = "loop"
    /\ cl_idx <= Len(cl_versions)
    /\ cl_markdown' = cl_markdown \o <<Chunk("body", cl_versions[cl_idx]),
                                       Chunk("separator", 0)>>
    /\ cl_fetched' = Append(cl_fetched, [minor |-> cl_versions[cl_idx], outcome |-> "ok"])
    /\ cl_idx' = cl_idx + 1
    /\ UNCHANGED <<cl_pc, cl_latest, cl_versions, cl_file>>
    /\ UNCHANGED not_changelog_vars

\* One iteration of the loop: session.get raises a RequestException, which
\* the handler logs; get_changelog returns.
ChangelogRequestRaises ==
    /\ cl_pc = "loop"
    /\ cl_idx <= Len(cl_versions)
    /\ cl_fetched' = Append(cl_fetched, [minor |-> cl_versions[cl_idx], outcome |-> "raised"])
    /\ cl_pc' = "failed"
    /\ UNCHANGED <<cl_latest, cl_versions, cl_idx, cl_markdown, cl_file>>
    /\ UNCHANGED not_changelog_vars

\* One iteration of the loop: the response has an error status; its text and
\* the separator are added to the markdown, then raise_for_status raises, the
\* handler logs it and get_changelog returns.
ChangelogBadStatus ==
    /\ cl_pc = "loop"
    /\ cl_idx <= Len(cl_versions)
    /\ cl_markdown' = cl_markdown \o <<Chunk("error", cl_versions[cl_idx]),
                                       Chunk("separator", 0)>>
    /\ cl_fetched' = Append(cl_fetched, [minor |-> cl_versions[cl_idx], outcome |-> "bad_status"])
    /\ cl_pc' = "failed"
    /\ UNCHANGED <<cl_latest, cl_versions, cl_idx, cl_file>>
    /\ UNCHANGED not_changelog_vars

\* The loop is over: the markdown is written to output/changelog.md.
WriteChangelog ==
    /\ cl_pc = "loop"
    /\ cl_idx > Len(cl_versions)
    /\ cl_file' = File(cl_markdown)
    /\ cl_pc' = "written"
    /\ UNCHANGED <<cl_latest, cl_versions, cl_idx, cl_markdown, cl_fetched>>
    /\ UNCHANGED not_changelog_vars

ChangelogInit == ChangelogStart /\ CrawlIdle /\ FinderIdle /\ WriterIdle

ChangelogNext ==
    \/ StableFetched
    \/ StableFetchRaises
    \/ ChangelogFetched
    \/ ChangelogRequestRaises
    \/ ChangelogBadStatus
    \/ WriteChangelog

SpecChangelog == ChangelogInit /\ [][ChangelogNext]_vars

\* The bodies of a changelog file, in the file's order.
BodiesOf(content) == SelectSeq(content, LAMBDA c : c.kind = "body")

\* The i-th version below and including the latest.
Descending(i) == cl_latest.minor - i + 1

\* C8: the changelog requests go from the latest minor version down, one per
\* version, never below 9; when the file is written every version from the
\* latest down to 9 was fetched (23 fetches for 1.31) and the file is one
\* heading followed by their bodies in that order.
C8_ChangelogRange ==
    /\ \A i \in 1..Len(cl_fetched) :
          cl_fetched[i].minor = Descending(i) /\ cl_fetched[i].minor >= 9
    /\ cl_pc = "written" =>
          LET n == IF cl_latest.minor >= 9 THEN cl_latest.minor - 9 + 1 ELSE 0
          IN  /\ Len(cl_fetched) = n
              /\ cl_latest.minor = 31 => Len(cl_fetched) = 23
              /\ \A i \in 1..n : cl_fetched[i].outcome = "ok"
              /\ cl_file.exists
              /\ cl_file.content[1] = Chunk("heading", cl_latest.minor)
              /\ SelectSeq(cl_file.content, LAMBDA c : c.kind = "heading")
                   = <<Chunk("heading", cl_latest.minor)>>
              /\ BodiesOf(cl_file.content) = [i \in 1..n |-> Chunk("body", Descending(i))]
              /\ \A i \in 1..Len(cl_file.content) :
                    cl_file.content[i].kind \in {"heading", "body", "separator"}

\* The changelog for 1.31 is written after 23 fetches, the last one of 1.9.
C8_Witness ==
    /\ cl_pc = "written"
    /\ cl_latest = [major |-> 1, minor |-> 31]
    /\ Len(cl_fetched) = 23
    /\ cl_fetched[1].minor = 31
    /\ cl_fetched[23].minor = 9
    /\ Len(BodiesOf(cl_file.content)) = 23

\* C9: when get_changelog has ended after the version pointer was read, every
\* version from the latest down to 9 was requested, the file is written with
\* the bodies of the versions fetched, and no error text is in it.
C9_FailedVersionSkipped ==
    cl_pc \in {"written", "failed"} =>
        LET n == IF cl_latest.minor >= 9 THEN cl_latest.minor - 9 + 1 ELSE 0
            fetched_ok == SelectSeq(cl_fetched, LAMBDA f : f.outcome = "ok")
        IN  /\ Len(cl_fetched) = n
            /\ cl_file.exists
            /\ BodiesOf(cl_file.content)
                 = [i \in 1..Len(fetched_ok) |-> Chunk("body", fetched_ok[i].minor)]
            /\ \A i \in 1..Len(cl_file.content) : cl_file.content[i].kind # "error"

\* ---------------------------------------------- FileWriter.write by itself

\* The output directory is empty, or holds the markdown file of an earlier
\* run.
WriterInit ==
    /\ fw_fs \in { [q \in WriterPaths |-> Absent],
                    [q \in WriterPaths |->
                        IF q = FilePath("reference", ".md")
                        THEN File(<<"old">>) ELSE Absent] }
    /\ fw_calls = 0
    /\ fw_call = NoCall
    /\ fw_before = fw_fs

not_writer_vars == <<crawl_vars, finder_vars, changelog_vars>>

Called(args, opened) ==
    [path |-> args.path, content |-> args.content, mode |-> args.mode,
     header |-> args.header, multiple_documents |-> args.multiple_documents,
     overwrite |-> args.overwrite, opened |-> opened]

\* A call of FileWriter.write that finds the file and may not overwrite it:
\* it returns before the file is opened.
WriteSkipped ==
    /\ fw_calls < MaxCalls
    /\ \E args \in WriterInputs :
          /\ ShouldSkip(args.overwrite, fw_fs[args.path].exists)
          /\ fw_call' = Called(args, FALSE)
    /\ fw_before' = fw_fs
    /\ fw_calls' = fw_calls + 1
    /\ UNCHANGED fw_fs
    /\ UNCHANGED not_writer_vars

\* A call of FileWriter.write that opens the file and writes the header and
\* the content.
WritePerformed ==
    /\ fw_calls < MaxCalls
    /\ \E args \in WriterInputs :
          /\ ~ShouldSkip(args.overwrite, fw_fs[args.path].exists)
          /\ fw_fs' = [fw_fs EXCEPT ![args.path] =
                          File(WriteBody(OpenFile(@, args.mode), args))]
          /\ fw_call' = Called(args, TRUE)
    /\ fw_before' = fw_fs
    /\ fw_calls' = fw_calls + 1
    /\ UNCHANGED not_writer_vars

WriterSpecInit == WriterInit /\ CrawlIdle /\ FinderIdle /\ ChangelogIdle

WriterNext ==
    \/ WriteSkipped
    \/ WritePerformed

SpecWriter == WriterSpecInit /\ [][WriterNext]_vars

\* The three pieces of the document delimiter.
Delimiter ==
    <<"\n\n", "+======================= NEW DOCUMENT =======================+\n", "\n\n">>

\* The items of a list with the delimiter between every two neighbours: item,
\* delimiter, item, ..., item.
Delimited(items) ==
    [p \in 1..(IF items = <<>> THEN 0 ELSE 4 * Len(items) - 3) |->
        IF (p - 1) % 4 = 0 THEN items[((p - 1) \div 4) + 1]
        ELSE Delimiter[(p - 1) % 4]]

\* What a call is to write: the header once, if one is given, then the
\* content.
ExpectedData(call) ==
    (IF call.header.none \/ call.header.text = "" THEN <<>> ELSE <<call.header.text>>)
    \o (IF call.content.is_str
        THEN (IF call.content.items[1] = "" THEN <<>> ELSE call.content.items)
        ELSE IF call.multiple_documents THEN Delimited(call.content.items)
        ELSE call.content.items)

\* C10: a call with overwrite false for a file that exists does not open the
\* file and leaves it as it was, whatever the mode, header and content; any
\* other call opens the file and writes the header once, then the content,
\* with the delimiter exactly between consecutive items of a list when
\* multiple_documents is set ("w" replaces what the file held, "a" adds to
\* it); no other file changes.
C10_OverwritePolicy ==
    fw_calls > 0 =>
        LET before == fw_before[fw_call.path]
            after  == fw_fs[fw_call.path]
        IN  /\ \A q \in WriterPaths \ {fw_call.path} : fw_fs[q] = fw_before[q]
            /\ (~fw_call.overwrite /\ before.exists) =>
                  ~fw_call.opened /\ after = before
            /\ (fw_call.overwrite \/ ~before.exists) =>
                  /\ fw_call.opened
                  /\ after.exists
                  /\ after.content =
                       (IF fw_call.mode = "a" THEN before.content ELSE <<>>)
                         \o ExpectedData(fw_call)

\* A first call wrote a header and three documents with the delimiter between
\* them; a second call for the same file, with overwrite false, mode "w" and
\* other content, left the file as it was.
C10_Witness ==
    /\ fw_calls = 2
    /\ ~fw_call.opened
    /\ ~fw_call.overwrite
    /\ fw_call.mode = "w"
    /\ fw_call.content = StrContent("A")
    /\ fw_fs[fw_call.path].content
         = <<"# Heading", "A"
           , "\n\n", "+======================= NEW DOCUMENT =======================+\n", "\n\n"
           , "B"
           , "\n\n", "+======================= NEW DOCUMENT =======================+\n", "\n\n"
           , "A">>

====
